---- MODULE Spec2Model ----
(***************************************************************************)
(* The tree items of libargos (qt/treeitems.py) and the parts of the       *)
(* repository tree model that drive them (repo/repotreemodel.py).          *)
(*                                                                         *)
(* A Python string is a sequence of one-character strings, so that         *)
(* concatenation, startswith and split are computed, not assumed.          *)
(* Objects are node identities 0..MaxNodes; node 0 is the invisible root   *)
(* item that the tree model constructs.                                    *)
(***************************************************************************)
EXTENDS Integers, Sequences, FiniteSets, TLC

\* ------------------------------------------------------------------ bounds

\* Number of tree items that can be constructed besides the root.
MaxNodes == 3

\* Number of calls in a run.
MaxCalls == 5

\* Length of the longest path handed to findByNodePath.
MaxPathLen == 4

\* ---------------------------------------------------------------- constants

\* Python's None: a value that is no node identity and no position that the
\* model passes.
None == -9

Nodes == 0..MaxNodes

\* The invisible root item of the store.
Root == 0

\* Depth at which the interpreter gives up a recursion (RecursionError).  Any
\* tree without a cycle is shallower than this.
RecursionLimit == MaxNodes + 3

\* Longest path string the model follows; only recursions over a cyclic
\* structure produce paths that long.
PathCap == 2 * (RecursionLimit + 2)

Slash == "/"

\* Names handed to the constructor and to the nodeName setter: two valid
\* names, the empty name and a name that contains the separator.
ValidNames == {<<"a">>, <<"b">>}

NameInputs == ValidNames \cup {<<>>, <<"/">>}

RootName == <<"r">>

\* ------------------------------------------------------------------ state

VARIABLES
    created,          \* the set of constructed items
    nodeName,         \* _nodeName
    parentItem,       \* _parentItem
    childItems,       \* _childItems
    nodePath,         \* _nodePath
    isLazy,           \* the item is an AbstractLazyLoadTreeItem
    childrenFetched,  \* _childrenFetched
    last,             \* the outcome of the last call
    calls             \* the number of calls made so far

vars == <<created, nodeName, parentItem, childItems, nodePath, isLazy,
          childrenFetched, last, calls>>

tree == <<nodeName, parentItem, childItems, nodePath, childrenFetched>>

\* --------------------------------------------------------- string helpers

\* '/' in s
HasSlash(s) == \E i \in 1..Len(s) : s[i] = Slash

\* s.startswith(p)
StartsWith(s, p) == Len(p) <= Len(s) /\ SubSeq(s, 1, Len(p)) = p

\* list.insert that ignores the position and appends
ListInsertAtEnd(s, pos, x) == Append(s, x)

\* list.insert(position, x) for 0 <= position <= len(list)
ListInsert(s, pos, x) == SubSeq(s, 1, pos) \o <<x>> \o SubSeq(s, pos + 1, Len(s))

\* list.pop(position) for 0 <= position < len(list): the list that is left
ListPop(s, pos) == SubSeq(s, 1, pos) \o SubSeq(s, pos + 2, Len(s))

Range(s) == {s[i] : i \in 1..Len(s)}

\* ------------------------------------------------------------- the record

\* The outcome of the last call.  op: the operation; err: "none" or the
\* exception raised (with the assertion that failed); ret: the items returned
\* (<<>> for None); log: the items whose finalize() returned during the call,
\* in that order.
Call(op, err, ret, log) == [op |-> op, err |-> err, ret |-> ret, log |-> log]

\* ------------------------------------------------------------------- Init

Init ==
    /\ created = {Root}
    /\ nodeName = [n \in Nodes |-> IF n = Root THEN RootName ELSE <<>>]
    /\ parentItem = [n \in Nodes |-> None]
    /\ childItems = [n \in Nodes |-> <<>>]
    /\ nodePath = [n \in Nodes |-> <<>>]
    /\ isLazy = [n \in Nodes |-> FALSE]
    /\ childrenFetched = [n \in Nodes |-> FALSE]
    /\ last = Call("init", "none", <<>>, <<>>)
    /\ calls = 0

\* ------------------------------------------------------- BaseTreeItem

\* _constructNodePath that leaves out the separator after an empty parent path
ConstructNodePathBare(parents, paths, names, n) ==
    IF parents[n] = None
    THEN <<>>
    ELSE IF paths[parents[n]] = <<>>
    THEN names[n]
    ELSE paths[parents[n]] \o <<Slash>> \o names[n]

\* _constructNodePath, read in the given parent, path and name maps
ConstructNodePath(parents, paths, names, n) ==
    IF parents[n] = None
    THEN <<>>
    ELSE paths[parents[n]] \o <<Slash>> \o names[n]

\* _recursiveSetNodePath(nodePath) on item n at call depth `depth`, over the
\* child lists kids and the names names.  st = [paths, ok]: the paths written
\* so far and whether the recursion is still running (ok = FALSE once the
\* interpreter raised RecursionError; what was written before stays written).
RECURSIVE RecursiveSetNodePath(_, _, _, _, _, _), SetNodePathOfChildren(_, _, _, _, _, _, _)

\* _recursiveSetNodePath that rewrites every item as if it were a child of n
RecursiveSetNodePathOfAll(st, kids, names, n, p, depth) ==
    [st EXCEPT !.paths = [m \in Nodes |-> IF m = n THEN p
                                          ELSE p \o <<Slash>> \o names[m]]]

RecursiveSetNodePath(st, kids, names, n, p, depth) ==
    IF ~st.ok THEN st
    ELSE IF depth > RecursionLimit THEN [st EXCEPT !.ok = FALSE]
    ELSE SetNodePathOfChildren([st EXCEPT !.paths[n] = p], kids, names, n, p, 1, depth)

SetNodePathOfChildren(st, kids, names, n, p, i, depth) ==
    IF ~st.ok \/ i > Len(kids[n]) THEN st
    ELSE LET c == kids[n][i]
         IN  SetNodePathOfChildren(
                 RecursiveSetNodePath(st, kids, names, c, p \o <<Slash>> \o names[c], depth + 1),
                 kids, names, n, p, i + 1, depth)

\* finalize() on item n at call depth `depth`.  st = [log, ok]: the items whose
\* finalize() has returned, in order, and whether the recursion is still
\* running.  The children are finalized first, then the call returns.
RECURSIVE FinalizeRec(_, _, _, _), FinalizeChildren(_, _, _, _, _)

\* finalize() that closes the item itself before its children
FinalizeSelfFirst(st, kids, n, depth) ==
    IF ~st.ok THEN st
    ELSE IF depth > RecursionLimit THEN [st EXCEPT !.ok = FALSE]
    ELSE FinalizeChildren([st EXCEPT !.log = Append(@, n)], kids, n, 1, depth)

FinalizeRec(st, kids, n, depth) ==
    IF ~st.ok THEN st
    ELSE IF depth > RecursionLimit THEN [st EXCEPT !.ok = FALSE]
    ELSE LET after == FinalizeChildren(st, kids, n, 1, depth)
         IN  IF after.ok THEN [after EXCEPT !.log = Append(@, n)] ELSE after

FinalizeChildren(st, kids, n, i, depth) ==
    IF ~st.ok \/ i > Len(kids[n]) THEN st
    ELSE FinalizeChildren(FinalizeRec(st, kids, kids[n][i], depth + 1), kids, n, i + 1, depth)

\* The identity of the next object the interpreter constructs.
Fresh == CHOOSE n \in Nodes \ created : \A m \in Nodes \ created : n <= m

PathsWithinCap(paths) == \A n \in Nodes : Len(paths[n]) <= PathCap

\* BaseTreeItem.__init__ / AbstractLazyLoadTreeItem.__init__
Create(name, lazy) ==
    /\ created # Nodes
    /\ IF name = <<>>
       THEN /\ last' = Call("create", "AssertionError", <<>>, <<>>)
            /\ UNCHANGED <<created, nodeName, parentItem, childItems, nodePath,
                           isLazy, childrenFetched>>
       ELSE LET n == Fresh
            IN  /\ created' = created \cup {n}
                /\ nodeName' = [nodeName EXCEPT ![n] = name]
                /\ parentItem' = [parentItem EXCEPT ![n] = None]
                /\ childItems' = [childItems EXCEPT ![n] = <<>>]
                /\ nodePath' = [nodePath EXCEPT ![n] =
                                   ConstructNodePath(parentItem', nodePath, nodeName', n)]
                /\ isLazy' = [isLazy EXCEPT ![n] = lazy]
                /\ childrenFetched' = [childrenFetched EXCEPT ![n] = FALSE]
                /\ last' = Call("create", "none", <<n>>, <<>>)

\* nodeName setter
SetName(n, name) ==
    /\ n \in created
    /\ IF HasSlash(name)
       THEN /\ last' = Call("setName", "AssertionError", <<>>, <<>>)
            /\ UNCHANGED <<created, nodeName, parentItem, childItems, nodePath,
                           isLazy, childrenFetched>>
       ELSE LET names == [nodeName EXCEPT ![n] = name]
                p == ConstructNodePath(parentItem, nodePath, names, n)
                st == RecursiveSetNodePath([paths |-> nodePath, ok |-> TRUE],
                                           childItems, names, n, p, 1)
            IN  /\ PathsWithinCap(st.paths)
                /\ nodeName' = names
                /\ nodePath' = st.paths
                /\ last' = Call("setName", IF st.ok THEN "none" ELSE "RecursionError", <<>>, <<>>)
                /\ UNCHANGED <<created, parentItem, childItems, isLazy,
                               childrenFetched>>

\* The position assertion of insertChild
InsertPositionOk(self, pos) == 0 <= pos /\ pos <= Len(childItems[self])

\* A parent assertion of insertChild that always passes
ChildIsFreeAlways(child) == TRUE

\* The parent assertion of insertChild
ChildIsFree(child) == parentItem[child] = None

\* insertChild(childItem, position); position = None when it is left out
InsertChild(self, child, position) ==
    /\ self \in created /\ child \in created
    /\ LET pos == IF position = None THEN Len(childItems[self]) ELSE position
       IN
       IF ~InsertPositionOk(self, pos)
       THEN /\ last' = Call("insertChild", "AssertionError: position", <<>>, <<>>)
            /\ UNCHANGED <<created, nodeName, parentItem, childItems, nodePath,
                           isLazy, childrenFetched>>
       ELSE IF ~ChildIsFree(child)
       THEN /\ last' = Call("insertChild", "AssertionError: parent", <<>>, <<>>)
            /\ UNCHANGED <<created, nodeName, parentItem, childItems, nodePath,
                           isLazy, childrenFetched>>
       ELSE LET parents == [parentItem EXCEPT ![child] = self]
                p == ConstructNodePath(parents, nodePath, nodeName, child)
                st == RecursiveSetNodePath([paths |-> nodePath, ok |-> TRUE],
                                           childItems, nodeName, child, p, 1)
            IN  /\ PathsWithinCap(st.paths)
                /\ parentItem' = parents
                /\ nodePath' = st.paths
                /\ childItems' = IF st.ok
                                 THEN [childItems EXCEPT ![self] = ListInsert(@, pos, child)]
                                 ELSE childItems
                /\ last' = IF st.ok
                           THEN Call("insertChild", "none", <<child>>, <<>>)
                           ELSE Call("insertChild", "RecursionError", <<>>, <<>>)
                /\ UNCHANGED <<created, nodeName, isLazy, childrenFetched>>

\* The position assertion of removeChild
RemovePositionOk(self, pos) == 0 <= pos /\ pos <= Len(childItems[self])

\* removeChild(position)
RemoveChild(self, pos) ==
    /\ self \in created
    /\ IF ~RemovePositionOk(self, pos)
       THEN /\ last' = Call("removeChild", "AssertionError", <<>>, <<>>)
            /\ UNCHANGED <<created, nodeName, parentItem, childItems, nodePath,
                           isLazy, childrenFetched>>
       ELSE IF pos >= Len(childItems[self])
       THEN /\ last' = Call("removeChild", "IndexError", <<>>, <<>>)
            /\ UNCHANGED <<created, nodeName, parentItem, childItems, nodePath,
                           isLazy, childrenFetched>>
       ELSE LET child == childItems[self][pos + 1]
                st == FinalizeRec([log |-> <<>>, ok |-> TRUE], childItems, child, 1)
            IN  /\ childItems' = IF st.ok
                                 THEN [childItems EXCEPT ![self] = ListPop(@, pos)]
                                 ELSE childItems
                /\ last' = Call("removeChild", IF st.ok THEN "none" ELSE "RecursionError", <<>>, st.log)
                /\ UNCHANGED <<created, nodeName, parentItem, nodePath, isLazy,
                               childrenFetched>>

\* removeAllChildren(), of BaseTreeItem and as extended by
\* AbstractLazyLoadTreeItem
RemoveAllChildren(self) ==
    /\ self \in created
    /\ LET st == FinalizeChildren([log |-> <<>>, ok |-> TRUE], childItems, self, 1, 0)
       IN  /\ childItems' = IF st.ok THEN [childItems EXCEPT ![self] = <<>>] ELSE childItems
           /\ childrenFetched' = IF st.ok /\ isLazy[self]
                                 THEN [childrenFetched EXCEPT ![self] = FALSE]
                                 ELSE childrenFetched
           /\ last' = Call("removeAllChildren", IF st.ok THEN "none" ELSE "RecursionError", <<>>, st.log)
           /\ UNCHANGED <<created, nodeName, parentItem, nodePath, isLazy>>

\* finalize(), called directly
Finalize(n) ==
    /\ n \in created
    /\ LET st == FinalizeRec([log |-> <<>>, ok |-> TRUE], childItems, n, 1)
       IN  /\ last' = Call("finalize", IF st.ok THEN "none" ELSE "RecursionError", <<>>, st.log)
           /\ UNCHANGED <<created, nodeName, parentItem, childItems, nodePath,
                          isLazy, childrenFetched>>

\* ---------------------------------------------- AbstractLazyLoadTreeItem

\* A canFetchChildren() that answers True whatever the flag is
CanFetchChildrenAlways(n) == TRUE

\* canFetchChildren()
CanFetchChildren(n) == ~childrenFetched[n]

\* An assertion of fetchChildren that always passes
NotYetFetchedAlways(n) == TRUE

\* An assertion of fetchChildren that also passes on an item without children
NotYetFetchedOrEmpty(n) == ~childrenFetched[n] \/ childItems[n] = <<>>

\* The assertion of fetchChildren
NotYetFetched(n) == ~childrenFetched[n]

\* A fetchChildren that sets the flag whether or not the production step returned
FetchedFlagAlways(old, returned) == TRUE

\* A fetchChildren that never sets the flag
FetchedFlagNever(old, returned) == old

\* _childrenFetched when fetchChildren ends: the assignment after the call of
\* _fetchAllChildren is reached only when that call returned
FetchedFlag(old, returned) == IF returned THEN TRUE ELSE old

\* Names of the items a production step builds, in the order it builds them.
ProducedNames == << <<"a">>, <<"b">> >>

\* The k unused identities the next k constructor calls get, lowest first.
RECURSIVE FreshSeq(_, _)
FreshSeq(free, k) ==
    IF k = 0 \/ free = {} THEN <<>>
    ELSE LET n == CHOOSE x \in free : \A y \in free : x <= y
         IN  <<n>> \o FreshSeq(free \ {n}, k - 1)

\* _fetchAllChildren of a concrete item class: builds k new lazy items, each
\* without a parent, and returns them in order.
FetchAllChildren(k) == FreshSeq(Nodes \ created, k)

\* fetchChildren(); outcome is what the production step does: None when it
\* raises, else the number of items it returns
FetchChildren(n, outcome) ==
    /\ n \in created /\ isLazy[n]
    /\ IF ~NotYetFetched(n)
       THEN /\ last' = Call("fetchChildren", "AssertionError", <<>>, <<>>)
            /\ UNCHANGED <<created, nodeName, parentItem, childItems, nodePath,
                           isLazy, childrenFetched>>
       ELSE IF outcome = None
       THEN /\ last' = Call("fetchChildren", "ProductionError", <<>>, <<>>)
            /\ childrenFetched' = [childrenFetched EXCEPT ![n] = FetchedFlag(@, FALSE)]
            /\ UNCHANGED <<created, nodeName, parentItem, childItems, nodePath,
                           isLazy>>
       ELSE LET new == FetchAllChildren(outcome)
                idx(c) == CHOOSE i \in 1..Len(new) : new[i] = c
            IN  /\ Len(new) = outcome
                /\ created' = created \cup Range(new)
                /\ nodeName' = [c \in Nodes |-> IF c \in Range(new)
                                                THEN ProducedNames[idx(c)] ELSE nodeName[c]]
                /\ parentItem' = [c \in Nodes |-> IF c \in Range(new) THEN None ELSE parentItem[c]]
                /\ childItems' = [c \in Nodes |-> IF c \in Range(new) THEN <<>> ELSE childItems[c]]
                /\ nodePath' = [c \in Nodes |-> IF c \in Range(new) THEN <<>> ELSE nodePath[c]]
                /\ isLazy' = [c \in Nodes |-> IF c \in Range(new) THEN TRUE ELSE isLazy[c]]
                /\ childrenFetched' = [c \in Nodes |->
                                          IF c \in Range(new) THEN FALSE
                                          ELSE IF c = n THEN FetchedFlag(childrenFetched[c], TRUE)
                                          ELSE childrenFetched[c]]
                /\ last' = Call("fetchChildren", "none", new, <<>>)

\* ------------------------------------------------------------- look-up

\* str.split('/')
RECURSIVE SplitAcc(_, _, _, _)
SplitAcc(s, i, cur, acc) ==
    IF i > Len(s) THEN Append(acc, cur)
    ELSE IF s[i] = Slash THEN SplitAcc(s, i + 1, <<>>, Append(acc, cur))
    ELSE SplitAcc(s, i + 1, Append(cur, s[i]), acc)

Split(s) == SplitAcc(s, 1, <<>>, <<>>)

\* A childByNodeName that returns the last child of that name
ChildByNodeNameLast(n, name) ==
    IF HasSlash(name) THEN [err |-> "AssertionError", ret |-> <<>>]
    ELSE LET hits == {i \in 1..Len(childItems[n]) : nodeName[childItems[n][i]] = name}
         IN  IF hits = {} THEN [err |-> "IndexError", ret |-> <<>>]
             ELSE LET i == CHOOSE h \in hits : \A g \in hits : h >= g
                  IN  [err |-> "none", ret |-> <<childItems[n][i]>>]

\* childByNodeName(nodeName): [err, ret]
ChildByNodeName(n, name) ==
    IF HasSlash(name) THEN [err |-> "AssertionError", ret |-> <<>>]
    ELSE LET hits == {i \in 1..Len(childItems[n]) : nodeName[childItems[n][i]] = name}
         IN  IF hits = {} THEN [err |-> "IndexError", ret |-> <<>>]
             ELSE LET i == CHOOSE h \in hits : \A g \in hits : h <= g
                  IN  [err |-> "none", ret |-> <<childItems[n][i]>>]

\* _auxGetByPath(parts, item) of findByNodePath
RECURSIVE AuxGetByPath(_, _)

\* An _auxGetByPath that looks for a child with the empty name at an empty
\* segment instead of skipping it
AuxGetByPathNoSkip(parts, item) ==
    IF Len(parts) = 0 THEN [err |-> "none", ret |-> <<item>>]
    ELSE LET r == ChildByNodeName(item, Head(parts))
         IN  IF r.err # "none" THEN r ELSE AuxGetByPath(Tail(parts), r.ret[1])

AuxGetByPath(parts, item) ==
    IF Len(parts) = 0 THEN [err |-> "none", ret |-> <<item>>]
    ELSE LET head == Head(parts)
             tail == Tail(parts)
         IN  IF head = <<>> THEN AuxGetByPath(tail, item)
             ELSE LET r == ChildByNodeName(item, head)
                  IN  IF r.err # "none" THEN r ELSE AuxGetByPath(tail, r.ret[1])

\* findByNodePath(nodePath) started at item n: [err, ret]
FindByNodePath(n, path) ==
    IF StartsWith(path, <<Slash>>) THEN [err |-> "AssertionError", ret |-> <<>>]
    ELSE IF path = <<>> THEN [err |-> "IndexError", ret |-> <<>>]
    ELSE AuxGetByPath(Split(path), n)

\* A call of findByNodePath on item start
FindItem(start, path) ==
    /\ start \in created
    /\ LET r == FindByNodePath(start, path)
       IN  last' = Call("findByNodePath", r.err, r.ret, <<>>)
    /\ UNCHANGED <<created, nodeName, parentItem, childItems, nodePath, isLazy,
                   childrenFetched>>

\* A call of childByNodeName on item n
FindChild(n, name) ==
    /\ n \in created
    /\ LET r == ChildByNodeName(n, name)
       IN  last' = Call("childByNodeName", r.err, r.ret, <<>>)
    /\ UNCHANGED <<created, nodeName, parentItem, childItems, nodePath, isLazy,
                   childrenFetched>>

\* ------------------------------------------------------- RepoTreeModel

\* The item fields as one value, for the methods of the tree model that make
\* several item calls in a row.  err is "none" until one of the calls raises;
\* log: the items whose finalize() returned.
TreeNow == [names |-> nodeName, parents |-> parentItem, kids |-> childItems,
            paths |-> nodePath, err |-> "none", log |-> <<>>]

\* insertChild(childItem, position) on item self, applied to the fields t
InsertChildOn(t, self, child, position) ==
    LET pos == IF position = None THEN Len(t.kids[self]) ELSE position
    IN  IF t.err # "none" THEN t
        ELSE IF ~(0 <= pos /\ pos <= Len(t.kids[self]))
        THEN [t EXCEPT !.err = "AssertionError: position"]
        ELSE IF t.parents[child] # None
        THEN [t EXCEPT !.err = "AssertionError: parent"]
        ELSE LET parents == [t.parents EXCEPT ![child] = self]
                 p == ConstructNodePath(parents, t.paths, t.names, child)
                 st == RecursiveSetNodePath([paths |-> t.paths, ok |-> TRUE],
                                            t.kids, t.names, child, p, 1)
             IN  IF st.ok
                 THEN [t EXCEPT !.parents = parents, !.paths = st.paths,
                                !.kids[self] = ListInsert(@, pos, child)]
                 ELSE [t EXCEPT !.parents = parents, !.paths = st.paths,
                                !.err = "RecursionError"]

\* removeChild(position) on item self, applied to the fields t
RemoveChildOn(t, self, pos) ==
    IF t.err # "none" THEN t
    ELSE IF ~(0 <= pos /\ pos <= Len(t.kids[self]))
    THEN [t EXCEPT !.err = "AssertionError"]
    ELSE IF pos >= Len(t.kids[self])
    THEN [t EXCEPT !.err = "IndexError"]
    ELSE LET st == FinalizeRec([log |-> t.log, ok |-> TRUE], t.kids, t.kids[self][pos + 1], 1)
         IN  IF st.ok
             THEN [t EXCEPT !.log = st.log, !.kids[self] = ListPop(@, pos)]
             ELSE [t EXCEPT !.log = st.log, !.err = "RecursionError"]

\* BaseTreeModel.insertItem(childItem, position, parentIndex): inserts the
\* item under the item of parentIndex
InsertItem(t, child, position, parent) == InsertChildOn(t, parent, child, position)

\* BaseTreeModel.deleteItemByIndex(itemIndex): removes the item at row `row`
\* of the item of the parent index
DeleteItemByIndex(t, parent, row) == RemoveChildOn(t, parent, row)

\* A fetchMore that inserts none of the fetched items
InsertNone(t, parent, items, i) == t

\* The loop of fetchMore: insertItem for each fetched item, from the i-th on
RECURSIVE InsertAll(_, _, _, _)
InsertAll(t, parent, items, i) ==
    IF i > Len(items) THEN t
    ELSE InsertAll(InsertItem(t, items[i], None, parent), parent, items, i + 1)

\* fetchMore(parentIndex) on the lazy item n; outcome as in FetchChildren
FetchMore(n, outcome) ==
    /\ n \in created /\ isLazy[n]
    /\ IF ~CanFetchChildren(n)
       THEN /\ last' = Call("fetchMore", "none", <<>>, <<>>)
            /\ UNCHANGED <<created, nodeName, parentItem, childItems, nodePath,
                           isLazy, childrenFetched>>
       ELSE IF outcome = None
       THEN /\ last' = Call("fetchMore", "ProductionError", <<>>, <<>>)
            /\ childrenFetched' = [childrenFetched EXCEPT ![n] = FetchedFlag(@, FALSE)]
            /\ UNCHANGED <<created, nodeName, parentItem, childItems, nodePath,
                           isLazy>>
       ELSE LET new == FetchAllChildren(outcome)
                idx(c) == CHOOSE i \in 1..Len(new) : new[i] = c
                names == [c \in Nodes |-> IF c \in Range(new)
                                          THEN ProducedNames[idx(c)] ELSE nodeName[c]]
                fetched == [c \in Nodes |->
                               IF c \in Range(new) THEN FALSE
                               ELSE IF c = n THEN FetchedFlag(childrenFetched[c], TRUE)
                               ELSE childrenFetched[c]]
                t0 == [names |-> names,
                       parents |-> [c \in Nodes |-> IF c \in Range(new) THEN None
                                                    ELSE parentItem[c]],
                       kids |-> [c \in Nodes |-> IF c \in Range(new) THEN <<>>
                                                 ELSE childItems[c]],
                       paths |-> [c \in Nodes |-> IF c \in Range(new) THEN <<>>
                                                  ELSE nodePath[c]],
                       err |-> "none", log |-> <<>>]
                tn == InsertAll(t0, n, new, 1)
            IN  /\ Len(new) = outcome
                /\ created' = created \cup Range(new)
                /\ nodeName' = names
                /\ isLazy' = [c \in Nodes |-> IF c \in Range(new) THEN TRUE ELSE isLazy[c]]
                /\ childrenFetched' = fetched
                /\ parentItem' = tn.parents
                /\ childItems' = tn.kids
                /\ nodePath' = tn.paths
                /\ last' = IF tn.err # "none" THEN Call("fetchMore", tn.err, <<>>, <<>>)
                           ELSE IF ~fetched[n]
                           THEN Call("fetchMore", "AssertionError", <<>>, <<>>)
                           ELSE Call("fetchMore", "none", new, <<>>)

\* A childNumber() that always answers 0
ChildNumberZero(n) == 0

\* childNumber(): the index of item n in the child list of its parent, 0 for
\* an item without parent, None when list.index raises ValueError
ChildNumber(n) ==
    IF parentItem[n] # None
    THEN LET sibs == childItems[parentItem[n]]
             hits == {i \in 1..Len(sibs) : sibs[i] = n}
         IN  IF hits = {} THEN None
             ELSE (CHOOSE h \in hits : \A g \in hits : h <= g) - 1
    ELSE 0

\* The fields t with the item `new` as its constructor leaves it
Constructed(t, new, name) ==
    [t EXCEPT !.names[new] = name, !.parents[new] = None, !.kids[new] = <<>>,
              !.paths[new] = <<>>]

\* loadFile(fileName, rtiClass, position, parentIndex) once createFromFileName
\* has returned the item `new`
LoadFileOn(t, new, position, parent) ==
    IF t.parents[new] # None THEN [t EXCEPT !.err = "AssertionError"]
    ELSE InsertItem(t, new, position, parent)

\* loadFile; ok: createFromFileName returns an item (else it raises)
LoadFile(ok, position, parent) ==
    /\ parent \in created
    /\ created # Nodes
    /\ IF ~ok
       THEN /\ last' = Call("loadFile", "LoadError", <<>>, <<>>)
            /\ UNCHANGED <<created, nodeName, parentItem, childItems, nodePath,
                           isLazy, childrenFetched>>
       ELSE LET new == Fresh
                t == LoadFileOn(Constructed(TreeNow, new, <<"a">>), new, position, parent)
            IN  /\ created' = created \cup {new}
                /\ nodeName' = t.names
                /\ parentItem' = t.parents
                /\ childItems' = t.kids
                /\ nodePath' = t.paths
                /\ isLazy' = [isLazy EXCEPT ![new] = TRUE]
                /\ childrenFetched' = [childrenFetched EXCEPT ![new] = FALSE]
                /\ last' = IF t.err = "none" THEN Call("loadFile", "none", <<new>>, <<>>)
                           ELSE Call("loadFile", t.err, <<>>, <<>>)

\* reloadFileAtIndex(itemIndex) for the index of the file item n; ok as in
\* LoadFile
ReloadFile(n, ok) ==
    /\ n \in created /\ isLazy[n]
    /\ parentItem[n] # None /\ n \in Range(childItems[parentItem[n]])
    /\ LET parent == parentItem[n]
           position == ChildNumber(n)
           t1 == DeleteItemByIndex(TreeNow, parent, position)
       IN  IF t1.err # "none" \/ ~ok
           THEN /\ parentItem' = t1.parents
                /\ childItems' = t1.kids
                /\ nodePath' = t1.paths
                /\ last' = Call("reloadFile", IF t1.err # "none" THEN t1.err ELSE "LoadError",
                                <<>>, t1.log)
                /\ UNCHANGED <<created, nodeName, isLazy, childrenFetched>>
           ELSE LET new == Fresh
                    t2 == LoadFileOn(Constructed(t1, new, nodeName[n]), new, position, parent)
                IN  /\ created # Nodes
                    /\ created' = created \cup {new}
                    /\ nodeName' = t2.names
                    /\ parentItem' = t2.parents
                    /\ childItems' = t2.kids
                    /\ nodePath' = t2.paths
                    /\ isLazy' = [isLazy EXCEPT ![new] = TRUE]
                    /\ childrenFetched' = [childrenFetched EXCEPT ![new] = FALSE]
                    /\ last' = IF t2.err = "none"
                               THEN Call("reloadFile", "none", <<new>>, t2.log)
                               ELSE Call("reloadFile", t2.err, <<>>, t2.log)

\* ------------------------------------------------- BaseTreeItem: rows

\* nChildren()
NChildren(n) == Len(childItems[n])

\* child(row): childItems[row], where Python counts a negative row from the
\* end of the list; None when the list raises IndexError
Child(n, row) ==
    IF 0 <= row /\ row < NChildren(n)
    THEN childItems[n][row + 1]
    ELSE IF 0 - NChildren(n) <= row /\ row < 0
    THEN childItems[n][NChildren(n) + row + 1]
    ELSE None

\* child(row), called on item n
ChildAt(n, row) ==
    /\ n \in created
    /\ last' = IF Child(n, row) = None
               THEN Call("child", "IndexError", <<>>, <<>>)
               ELSE Call("child", "none", <<Child(n, row)>>, <<>>)
    /\ UNCHANGED <<created, nodeName, parentItem, childItems, nodePath,
                   isLazy, childrenFetched>>

\* childNumber(), called on item n; ret holds the number returned
ChildNumberOf(n) ==
    /\ n \in created
    /\ last' = IF ChildNumber(n) = None
               THEN Call("childNumber", "ValueError", <<>>, <<>>)
               ELSE Call("childNumber", "none", <<ChildNumber(n)>>, <<>>)
    /\ UNCHANGED <<created, nodeName, parentItem, childItems, nodePath,
                   isLazy, childrenFetched>>

\* ------------------------------------------------------------ the system

\* Positions passed to insertChild and removeChild on item n: every valid one,
\* one below and one above the valid range.
Positions(n) == (0 - 1)..(Len(childItems[n]) + 1)

\* One more call, while the run has calls left.
Counted(call) == calls < MaxCalls /\ calls' = calls + 1 /\ call

\* Plain tree items with valid names: built, renamed, inserted, removed,
\* finalized and looked up by their own path.
Next ==
    \/ \E name \in ValidNames : Counted(Create(name, FALSE))
    \/ \E n \in Nodes, name \in ValidNames : Counted(SetName(n, name))
    \/ \E self \in Nodes, child \in Nodes :
           \E position \in Positions(self) \cup {None} :
               Counted(InsertChild(self, child, position))
    \/ \E self \in Nodes : \E pos \in Positions(self) : Counted(RemoveChild(self, pos))
    \/ \E self \in Nodes : Counted(RemoveAllChildren(self))
    \/ \E n \in Nodes : Counted(Finalize(n))
    \/ \E n \in created : Counted(FindItem(Root, nodePath[n]))

Spec == Init /\ [][Next]_vars

\* Lazy and plain items: built, inserted, removed and fetched.
NextLazy ==
    \/ \E lazy \in BOOLEAN : Counted(Create(<<"a">>, lazy))
    \/ \E self \in Nodes, child \in Nodes :
           \E position \in Positions(self) \cup {None} :
               Counted(InsertChild(self, child, position))
    \/ \E self \in Nodes : \E pos \in Positions(self) : Counted(RemoveChild(self, pos))
    \/ \E self \in Nodes : Counted(RemoveAllChildren(self))
    \/ \E n \in Nodes, outcome \in (0..Len(ProducedNames)) \cup {None} :
           Counted(FetchChildren(n, outcome))

SpecLazy == Init /\ [][NextLazy]_vars

\* Plain tree items with any name: built, renamed, appended and looked up by
\* name.
NextNames ==
    \/ \E name \in NameInputs : Counted(Create(name, FALSE))
    \/ \E n \in Nodes, name \in NameInputs : Counted(SetName(n, name))
    \/ \E self \in Nodes, child \in Nodes : Counted(InsertChild(self, child, None))
    \/ \E n \in Nodes, name \in NameInputs : Counted(FindChild(n, name))

SpecNames == Init /\ [][NextNames]_vars

\* Paths handed to findByNodePath: every string of at most MaxPathLen
\* characters over 'a', 'b' and '/'.
PathInputs == UNION {[1..k -> {"a", "b", Slash}] : k \in 0..MaxPathLen}

\* Plain tree items with valid names: built, appended and looked up by any
\* path from any item.
NextFind ==
    \/ \E name \in ValidNames : Counted(Create(name, FALSE))
    \/ \E self \in Nodes, child \in Nodes : Counted(InsertChild(self, child, None))
    \/ \E start \in Nodes, path \in PathInputs : Counted(FindItem(start, path))

SpecFind == Init /\ [][NextFind]_vars

\* Positions passed to loadFile: the first, the second, and None for the end.
LoadPositions == {0, 1, None}

\* The repository tree model over lazy items: files loaded and reloaded,
\* items expanded, and items inserted by hand.
NextRepo ==
    \/ \E ok \in BOOLEAN, position \in LoadPositions, parent \in Nodes :
           Counted(LoadFile(ok, position, parent))
    \/ \E n \in Nodes, outcome \in (0..Len(ProducedNames)) \cup {None} :
           Counted(FetchMore(n, outcome))
    \/ \E n \in Nodes, ok \in BOOLEAN : Counted(ReloadFile(n, ok))
    \/ \E self \in Nodes, child \in Nodes : Counted(InsertChild(self, child, None))

SpecRepo == Init /\ [][NextRepo]_vars

\* Rows passed to child on item n: every row of the list counted from the
\* front and from the end, one below and one above.
Rows(n) == (0 - NChildren(n) - 1)..NChildren(n)

\* Plain tree items: built, inserted, removed, and asked for a child by row
\* and for their own row.
NextRows ==
    \/ Counted(Create(<<"a">>, FALSE))
    \/ \E self \in Nodes, child \in Nodes :
           \E position \in Positions(self) \cup {None} :
               Counted(InsertChild(self, child, position))
    \/ \E self \in Nodes : \E pos \in Positions(self) : Counted(RemoveChild(self, pos))
    \/ \E self \in Nodes : Counted(RemoveAllChildren(self))
    \/ \E n \in Nodes : \E row \in Rows(n) : Counted(ChildAt(n, row))
    \/ \E n \in Nodes : Counted(ChildNumberOf(n))

SpecRows == Init /\ [][NextRows]_vars

\* Lazy items: built, renamed, inserted, removed, finalized and fetched.
NextFlag ==
    \/ Counted(Create(<<"a">>, TRUE))
    \/ \E n \in Nodes : Counted(SetName(n, <<"b">>))
    \/ \E self \in Nodes, child \in Nodes :
           \E position \in Positions(self) \cup {None} :
               Counted(InsertChild(self, child, position))
    \/ \E self \in Nodes : \E pos \in Positions(self) : Counted(RemoveChild(self, pos))
    \/ \E self \in Nodes : Counted(RemoveAllChildren(self))
    \/ \E n \in Nodes : Counted(Finalize(n))
    \/ \E n \in Nodes, outcome \in (0..Len(ProducedNames)) \cup {None} :
           Counted(FetchChildren(n, outcome))

SpecFlag == Init /\ [][NextFlag]_vars

\* ------------------------------------------------------------ properties

\* The items reached from the items of S through at most k child lists.
RECURSIVE Closure(_, _, _)
Closure(kids, S, k) ==
    IF k = 0 THEN S
    ELSE Closure(kids, S \cup UNION {Range(kids[n]) : n \in S}, k - 1)

\* The descendants of n: n itself is among them exactly when n lies on a cycle.
DescendantsIn(kids, n) == Closure(kids, Range(kids[n]), MaxNodes)

Descendants(n) == DescendantsIn(childItems, n)

\* The items of the store: the root and what hangs under it.
InStore == {Root} \cup Descendants(Root)

\* The places (item, index) where n occurs in a child list.
Places(n) == {pl \in Nodes \X (1..(MaxNodes + 1)) :
                 pl[2] <= Len(childItems[pl[1]]) /\ childItems[pl[1]][pl[2]] = n}

SiblingNamesDistinct ==
    \A m \in Nodes : \A i, j \in 1..Len(childItems[m]) :
        i # j => nodeName[childItems[m][i]] # nodeName[childItems[m][j]]

PositionInputs(self) == Positions(self) \cup {None}

\* C1: every item of the store has the path '' when it has no parent and the
\* path parent.path + '/' + name otherwise.
C1_PathInvariant ==
    \A n \in InStore :
        nodePath[n] = IF parentItem[n] = None
                      THEN <<>>
                      ELSE nodePath[parentItem[n]] \o <<Slash>> \o nodeName[n]

C3_RoundTrip ==
    [][\A n \in Nodes \ {Root} :
          (/\ last'.op = "findByNodePath"
           /\ parentItem[Root] = None /\ n \in InStore /\ SiblingNamesDistinct
           /\ FindItem(Root, nodePath[n]))
          => (last'.err = "none" /\ last'.ret = <<n>>)]_vars

\* C4: every item occurs at most once in all child lists together, and no
\* item is its own descendant.
C4_TreeShaped ==
    \A n \in created : Cardinality(Places(n)) <= 1 /\ n \notin Descendants(n)

\* C5: insertChild of an item that already has a parent raises, and leaves the
\* child list of the target and the parent and path of the item as they were.
C5_InsertParentedFails ==
    [][\A self \in Nodes, child \in Nodes : \A position \in PositionInputs(self) :
          (/\ last'.op = "insertChild" /\ parentItem[child] # None
           /\ InsertChild(self, child, position))
          => /\ last'.err # "none"
             /\ childItems'[self] = childItems[self]
             /\ parentItem'[child] = parentItem[child]
             /\ nodePath'[child] = nodePath[child]]_vars

\* C5: an insertChild with a valid position has just failed on its parent
\* assertion.
C5_Witness ==
    /\ last.op = "insertChild" /\ last.err = "AssertionError: parent"
    /\ \E n \in created : parentItem[n] # None

\* C6: insertChild of an item without parent at a position in
\* [0, childCount()], or with the position left out (the end), puts the item
\* at that index, keeps the order of the others, adds exactly one child and
\* returns the item; any other position raises and changes no child list.
C6_InsertAtPosition ==
    [][\A self \in Nodes, child \in Nodes : \A position \in PositionInputs(self) :
          (/\ last'.op = "insertChild" /\ parentItem[child] = None
           /\ InsertChild(self, child, position))
          => LET old == childItems[self]
                 new == childItems'[self]
                 pos == IF position = None THEN Len(old) ELSE position
             IN  IF 0 <= pos /\ pos <= Len(old)
                 THEN /\ last'.err = "none" /\ last'.ret = <<child>>
                      /\ Len(new) = Len(old) + 1
                      /\ new[pos + 1] = child
                      /\ \A i \in 1..Len(old) :
                             new[IF i <= pos THEN i ELSE i + 1] = old[i]
                 ELSE last'.err # "none" /\ childItems' = childItems]_vars

\* C6: an item was just inserted at position 0 in front of an older child.
C6_Witness ==
    /\ last.op = "insertChild" /\ last.err = "none"
    /\ parentItem[Root] = None
    /\ Len(childItems[Root]) = 2
    /\ last.ret = <<childItems[Root][1]>>
    /\ childItems[Root][1] > childItems[Root][2]

\* C7: removeChild at a position in [0, childCount()) removes exactly that
\* child, keeps the order of the others and finalizes the removed item and all
\* its descendants; at any other position it raises, removes nothing and
\* finalizes nothing.
C7_RemoveChildAt ==
    [][\A self \in Nodes : \A pos \in Positions(self) :
          (last'.op = "removeChild" /\ RemoveChild(self, pos))
          => LET old == childItems[self]
                 new == childItems'[self]
             IN  IF 0 <= pos /\ pos < Len(old)
                 THEN /\ last'.err = "none"
                      /\ Len(new) = Len(old) - 1
                      /\ \A i \in 1..Len(new) :
                             new[i] = old[IF i <= pos THEN i ELSE i + 1]
                      /\ {old[pos + 1]} \cup Descendants(old[pos + 1])
                             \subseteq Range(last'.log)
                 ELSE /\ last'.err # "none"
                      /\ childItems' = childItems
                      /\ last'.log = <<>>]_vars

\* C8: in the order in which finalize() calls return, every descendant of an
\* item comes before the item.
C8_FinalizeBottomUp ==
    \A i \in 1..Len(last.log) :
        \A d \in Descendants(last.log[i]) :
            \E j \in 1..(i - 1) : last.log[j] = d

\* C8: a call has finalized an item that has a child.
C8_Witness ==
    /\ last.err = "none"
    /\ \E i \in 1..Len(last.log) : childItems[last.log[i]] # <<>>

\* C9: fetchChildren on an item whose children are fetched raises, builds no
\* item and leaves the flags and the child lists as they were.
C9_SecondFetchFails ==
    [][\A n \in Nodes : \A outcome \in (0..Len(ProducedNames)) \cup {None} :
          (/\ last'.op = "fetchChildren" /\ childrenFetched[n]
           /\ FetchChildren(n, outcome))
          => /\ last'.err # "none"
             /\ created' = created
             /\ childrenFetched' = childrenFetched
             /\ childItems' = childItems]_vars

\* C9: a fetchChildren has just failed on its assertion.
C9_Witness ==
    /\ last.op = "fetchChildren" /\ last.err = "AssertionError"
    /\ \E n \in created : isLazy[n] /\ childrenFetched[n]

\* C10: removeAllChildren on a lazy item finalizes every child, leaves the
\* item without children and with childrenFetched false.
C10_RemoveAllChildrenResets ==
    [][\A self \in Nodes :
          (/\ last'.op = "removeAllChildren" /\ isLazy[self]
           /\ RemoveAllChildren(self))
          => /\ last'.err = "none"
             /\ Range(childItems[self]) \subseteq Range(last'.log)
             /\ childItems'[self] = <<>>
             /\ ~childrenFetched'[self]]_vars

\* C11: when the production step of fetchChildren on an unfetched lazy item
\* raises, the call raises that error and the item stays unfetched:
\* childrenFetched false, canFetchChildren() true, no item built and every
\* child list as it was.
C11_FailedFetchStaysUnfetched ==
    [][\A n \in Nodes :
          (/\ last'.op = "fetchChildren" /\ ~childrenFetched[n]
           /\ FetchChildren(n, None))
          => /\ last'.err = "ProductionError"
             /\ ~childrenFetched'[n]
             /\ CanFetchChildren(n)'
             /\ childrenFetched' = childrenFetched
             /\ created' = created
             /\ childItems' = childItems]_vars

\* C11: the production step of a fetchChildren has just raised on an item that
\* had a child.
C11_Witness ==
    /\ last.op = "fetchChildren" /\ last.err = "ProductionError"
    /\ \E n \in created : isLazy[n] /\ ~childrenFetched[n] /\ childItems[n] # <<>>

\* C12: a fetchChildren that succeeds on an unfetched lazy item sets its
\* childrenFetched and returns the produced items, each without a parent; the
\* child list of every item that existed, its parent, its name and its path
\* stay as they were.
C12_FetchOnlyProduces ==
    [][\A n \in Nodes : \A outcome \in 0..Len(ProducedNames) :
          (/\ last'.op = "fetchChildren" /\ last'.err = "none" /\ ~childrenFetched[n]
           /\ FetchChildren(n, outcome))
          => /\ childrenFetched'[n]
             /\ Len(last'.ret) = outcome
             /\ \A i \in 1..Len(last'.ret) :
                    /\ last'.ret[i] \notin created
                    /\ parentItem'[last'.ret[i]] = None
                    /\ \A m \in Nodes : last'.ret[i] \notin Range(childItems'[m])
             /\ \A m \in created :
                    /\ childItems'[m] = childItems[m]
                    /\ parentItem'[m] = parentItem[m]
                    /\ nodeName'[m] = nodeName[m]
                    /\ nodePath'[m] = nodePath[m]]_vars

\* C12: a fetchChildren has just returned two items on an item that has a
\* child of its own.
C12_Witness ==
    /\ last.op = "fetchChildren" /\ last.err = "none" /\ Len(last.ret) = 2
    /\ \E n \in created : isLazy[n] /\ childrenFetched[n] /\ childItems[n] # <<>>

\* C13: fetchMore on an unfetched lazy item whose production step returns
\* ends without error, with canFetchChildren() false and with the produced
\* items appended, in the order produced, to the children the item had.
C13_ExpandAppendsProduced ==
    [][\A n \in Nodes : \A outcome \in 0..Len(ProducedNames) :
          (/\ last'.op = "fetchMore" /\ CanFetchChildren(n)
           /\ FetchMore(n, outcome))
          => /\ last'.err = "none"
             /\ ~CanFetchChildren(n)'
             /\ Len(last'.ret) = outcome
             /\ Len(childItems'[n]) = Len(childItems[n]) + outcome
             /\ childItems'[n] = childItems[n] \o last'.ret
             /\ \A i \in 1..outcome : parentItem'[last'.ret[i]] = n]_vars

\* C13: a fetchMore has just put two produced items under an item.
C13_Witness ==
    /\ last.op = "fetchMore" /\ last.err = "none" /\ Len(last.ret) = 2
    /\ \E n \in created :
           isLazy[n] /\ ~CanFetchChildren(n) /\ childItems[n] = last.ret

\* C14: an insertChild, removeChild or fetchChildren that raises leaves the
\* parent, child list, path and childrenFetched flag of every item as they
\* were, and has finalized no item.
C14_FailureChangesNothing ==
    [][(/\ last'.op \in {"insertChild", "removeChild", "fetchChildren"}
        /\ last'.err # "none")
       => /\ parentItem' = parentItem
          /\ childItems' = childItems
          /\ nodePath' = nodePath
          /\ childrenFetched' = childrenFetched
          /\ last'.log = <<>>]_vars

\* C15: a reloadFileAtIndex that succeeds on the item n at index i under its
\* parent p finalizes n, takes it out of the children of p and puts a newly
\* built item at index i: p has as many children as before, every other child
\* of p keeps its index, and the parent of the new item is p.
C15_ReloadInPlace ==
    [][\A n \in Nodes :
          (/\ last'.op = "reloadFile" /\ last'.err = "none"
           /\ ReloadFile(n, TRUE))
          => LET p == parentItem[n]
                 old == childItems[p]
                 new == childItems'[p]
                 i == CHOOSE k \in 1..Len(old) : old[k] = n
             IN  /\ Len(new) = Len(old)
                 /\ \A k \in 1..Len(old) : k # i => new[k] = old[k]
                 /\ new[i] = last'.ret[1]
                 /\ last'.ret[1] \notin created
                 /\ parentItem'[last'.ret[1]] = p
                 /\ n \notin Range(new)
                 /\ n \in Range(last'.log)]_vars

\* C15: a reloadFileAtIndex has just replaced the second of two children.
C15_Witness ==
    /\ last.op = "reloadFile" /\ last.err = "none"
    /\ \E p \in created :
           /\ Len(childItems[p]) = 2
           /\ childItems[p][2] = last.ret[1]
           /\ parentItem[last.ret[1]] = p

\* A legal name: not empty and without '/'.
LegalName(name) == name # <<>> /\ ~HasSlash(name)

\* C16: no item has an empty name or a name with '/': the constructor raises
\* for such a name and builds nothing, and the nodeName setter raises for such
\* a name and leaves every name and every path as it was.
C16_NamesLegal ==
    [][/\ \A n \in created' : LegalName(nodeName'[n])
       /\ \A name \in NameInputs :
              (last'.op = "create" /\ ~LegalName(name) /\ Create(name, FALSE))
              => last'.err # "none" /\ created' = created
       /\ \A n \in Nodes, name \in NameInputs :
              (last'.op = "setName" /\ ~LegalName(name) /\ SetName(n, name))
              => last'.err # "none" /\ nodeName' = nodeName /\ nodePath' = nodePath]_vars

\* s.endswith(p)
EndsWith(s, p) == Len(p) <= Len(s) /\ SubSeq(s, Len(s) - Len(p) + 1, Len(s)) = p

\* C17: after a call of the nodeName setter with a name without '/' on item n,
\* the path of n ends in the new name (for an item without parent, whose path
\* is '', it stays '') and the path of every descendant of n starts with the
\* path of n followed by '/'.
C17_RenameReachesSubtree ==
    [][\A n \in Nodes, name \in ValidNames :
          (last'.op = "setName" /\ SetName(n, name))
          => /\ IF parentItem[n] = None THEN nodePath'[n] = <<>>
                ELSE EndsWith(nodePath'[n], name)
             /\ \A d \in DescendantsIn(childItems', n) :
                    StartsWith(nodePath'[d], nodePath'[n] \o <<Slash>>)]_vars

\* The segments of path p: the maximal runs of characters other than '/', in
\* order (the runs between two '/', or between an end of p and a '/', that are
\* not empty).
SegmentStarts(p) == {i \in 1..Len(p) : p[i] # Slash /\ (i = 1 \/ p[i - 1] = Slash)}

SegmentFrom(p, i) ==
    LET stop == CHOOSE j \in i..Len(p) :
                    /\ \A k \in i..j : p[k] # Slash
                    /\ (j = Len(p) \/ p[j + 1] = Slash)
    IN  SubSeq(p, i, stop)

\* The first child of item n that is named name, None when there is none.
FirstChildNamed(n, name) ==
    LET hits == {i \in 1..Len(childItems[n]) : nodeName[childItems[n][i]] = name}
    IN  IF hits = {} THEN None
        ELSE childItems[n][CHOOSE h \in hits : \A g \in hits : h <= g]

\* The item reached from item s by the segments of p that start at index i or
\* later, None when a segment names no child.
RECURSIVE WalkFrom(_, _, _)
WalkFrom(s, p, i) ==
    LET starts == {j \in SegmentStarts(p) : j >= i}
    IN  IF s = None \/ starts = {} THEN s
        ELSE LET j == CHOOSE x \in starts : \A y \in starts : x <= y
                 seg == SegmentFrom(p, j)
             IN  WalkFrom(FirstChildNamed(s, seg), p, j + Len(seg))

\* What findByNodePath(p) on item s has to do: raise AssertionError when p
\* starts with '/', raise IndexError when p is empty or a segment of p names
\* no child, and otherwise return the item reached from s by taking, for each
\* segment of p that is not empty, the first child of that name.
FindAgrees(s, p) ==
    LET r == FindByNodePath(s, p)
        w == WalkFrom(s, p, 1)
    IN  IF p # <<>> /\ p[1] = Slash THEN r.err = "AssertionError"
        ELSE IF p = <<>> \/ w = None THEN r.err = "IndexError"
        ELSE r.err = "none" /\ r.ret = <<w>>

\* C18: in every state, findByNodePath(p) on any item s raises AssertionError
\* when p starts with '/', raises IndexError when p is empty or a segment of p
\* names no child, and otherwise returns the item reached from s by taking,
\* for each segment of p that is not empty (a doubled or trailing '/' makes
\* an empty one, which is skipped), the first child of that name; and a call
\* of findByNodePath changes no field of any item.
C18_FindFollowsSegments ==
    /\ [](\A s \in created, p \in PathInputs : FindAgrees(s, p))
    /\ [][last'.op = "findByNodePath"
          => UNCHANGED <<created, nodeName, parentItem, childItems, nodePath,
                         isLazy, childrenFetched>>]_vars

\* C18: "a/b" was just resolved from the root to the item "b" under "a".
C18_Witness ==
    /\ last.op = "findByNodePath" /\ last.err = "none"
    /\ \E a \in created, b \in created :
           /\ parentItem[Root] = None /\ parentItem[a] = Root /\ parentItem[b] = a
           /\ nodeName[a] = <<"a">> /\ nodeName[b] = <<"b">>
           /\ childItems[Root] = <<a>> /\ childItems[a] = <<b>>
           /\ last.ret = <<b>>

\* C19: no two distinct items of the store have the same path.
C19_PathsUnique ==
    \A m \in InStore, n \in InStore : m # n => nodePath[m] # nodePath[n]

\* C20 as stated: childByNodeName(name) on item n returns the first child of n
\* whose name is name, and raises the not-found error (IndexError) when no
\* child of n has that name.
C20_FirstChildOrNotFound ==
    [][\A n \in Nodes, name \in NameInputs :
          (last'.op = "childByNodeName" /\ FindChild(n, name))
          => IF FirstChildNamed(n, name) # None
             THEN last'.err = "none" /\ last'.ret = <<FirstChildNamed(n, name)>>
             ELSE last'.err = "IndexError"]_vars

\* C20 amended: childByNodeName(name) with a name that contains '/' raises
\* AssertionError, whatever the children are named; with any other name it
\* returns the first child of n whose name is name, never a grandchild, and
\* raises IndexError when no child of n has that name.
C20_FirstChildByLegalName ==
    [][\A n \in Nodes, name \in NameInputs :
          (last'.op = "childByNodeName" /\ FindChild(n, name))
          => IF HasSlash(name)
             THEN last'.err = "AssertionError"
             ELSE IF FirstChildNamed(n, name) # None
             THEN /\ last'.err = "none"
                  /\ last'.ret = <<FirstChildNamed(n, name)>>
                  /\ last'.ret[1] \in Range(childItems[n])
             ELSE last'.err = "IndexError"]_vars

\* C20: childByNodeName has just returned the first of two children of the
\* same name.
C20_Witness ==
    /\ last.op = "childByNodeName" /\ last.err = "none"
    /\ \E n \in created :
           /\ Len(childItems[n]) = 2
           /\ childItems[n][1] # childItems[n][2]
           /\ nodeName[childItems[n][1]] = nodeName[childItems[n][2]]
           /\ last.ret = <<childItems[n][1]>>

\* C21: child(row) returns the child at that row when 0 <= row < nChildren()
\* and raises an out-of-range error for every other row, every negative row
\* included.
C21_ChildAtInRangeOnly ==
    [][\A n \in Nodes : \A row \in Rows(n) :
          (last'.op = "child" /\ ChildAt(n, row))
          => IF 0 <= row /\ row < NChildren(n)
             THEN last'.err = "none" /\ last'.ret = <<childItems[n][row + 1]>>
             ELSE last'.err = "IndexError"]_vars

\* C22: childNumber() of an item never raises; it returns 0 for an item
\* without parent and otherwise a row at which the parent holds the item.
C22_IndexInParent ==
    [][\A n \in Nodes :
          (last'.op = "childNumber" /\ ChildNumberOf(n))
          => /\ last'.err = "none"
             /\ Len(last'.ret) = 1
             /\ IF parentItem[n] = None
                THEN last'.ret[1] = 0
                ELSE /\ 0 <= last'.ret[1] /\ last'.ret[1] < NChildren(parentItem[n])
                     /\ Child(parentItem[n], last'.ret[1]) = n]_vars

\* The subtree rooted at n: n and its descendants.
Subtree(n) == {n} \cup Descendants(n)

\* C23: insertChild(child, ...) changes the path of no item outside the
\* subtree rooted at child, the nodeName setter on n changes the path of no
\* item outside the subtree rooted at n, and removeChild changes no path at
\* all, whether or not the call raises.
C23_PathsOutsideSubtreeKept ==
    [][/\ \A self \in Nodes, child \in Nodes : \A position \in PositionInputs(self) :
              (last'.op = "insertChild" /\ InsertChild(self, child, position))
              => \A m \in Nodes \ Subtree(child) : nodePath'[m] = nodePath[m]
       /\ \A n \in Nodes, name \in ValidNames :
              (last'.op = "setName" /\ SetName(n, name))
              => \A m \in Nodes \ Subtree(n) : nodePath'[m] = nodePath[m]
       /\ last'.op = "removeChild" => nodePath' = nodePath]_vars

\* C23: insertChild has just put an item with a child of its own under the
\* root; the paths of the inserted item and of its child have been recomputed
\* and the path of the root, which is outside the subtree, is still ''.
C23_Witness ==
    /\ last.op = "insertChild" /\ last.err = "none"
    /\ \E c \in created, d \in created :
           /\ last.ret = <<c>> /\ c # d /\ c # Root /\ d # Root
           /\ childItems[c] = <<d>> /\ childItems[Root] = <<c>>
           /\ parentItem[c] = Root /\ parentItem[Root] = None
           /\ nodePath[Root] = <<>>
           /\ nodePath[c] = <<Slash>> \o nodeName[c]
           /\ nodePath[d] = nodePath[c] \o <<Slash>> \o nodeName[d]

\* C24: parent pointers and child lists agree: an item n has the parent p
\* exactly when n occurs in the child list of p; so an item that has been
\* removed has no parent.
C24_ParentChildAgree ==
    \A n \in created, p \in created :
        parentItem[n] = p <=> n \in Range(childItems[p])

\* C25: _childrenFetched of a new item is False; a call changes it only when
\* it is a fetchChildren that returns (to True) or a removeAllChildren (to
\* False); insertChild, removeChild, the nodeName setter and finalize leave
\* every flag as it is; and fetchChildren on an item whose flag is True
\* raises, however many children the item has left.
C25_FlagFrame ==
    [][/\ \A n \in created' \ created : ~childrenFetched'[n]
       /\ \A n \in created :
              childrenFetched'[n] # childrenFetched[n]
              => \/ last'.op = "fetchChildren" /\ last'.err = "none" /\ childrenFetched'[n]
                 \/ last'.op = "removeAllChildren" /\ ~childrenFetched'[n]
       /\ last'.op \in {"insertChild", "removeChild", "setName", "finalize"}
              => childrenFetched' = childrenFetched
       /\ \A n \in Nodes, outcome \in (0..Len(ProducedNames)) \cup {None} :
              (last'.op = "fetchChildren" /\ childrenFetched[n] /\ FetchChildren(n, outcome))
              => last'.err = "AssertionError" /\ childrenFetched' = childrenFetched]_vars

\* C25: fetchChildren has just raised on the only fetched item, which has no
\* children left after its one child was removed with removeChild (the
\* removed item still names it as parent).
C25_Witness ==
    /\ last.op = "fetchChildren" /\ last.err = "AssertionError"
    /\ \E n \in created :
           /\ isLazy[n] /\ childrenFetched[n] /\ childItems[n] = <<>>
           /\ \A m \in created \ {n} : ~childrenFetched[m]
           /\ \E c \in created \ {n} : parentItem[c] = n

\* The outcomes of a production step: None when it raises, else the number of
\* items it returns.
Outcomes == (0..Len(ProducedNames)) \cup {None}

\* C26: fetchMore on an item whose flag is True returns without an error and
\* changes no field of any item, and builds no item; and every fetchMore on an
\* item whose flag is False leaves the flag True, so that a later fetchMore
\* on the same item does not run the production step again.
C26_ProductionAtMostOnce ==
    [][\A n \in Nodes, outcome \in Outcomes :
          (last'.op = "fetchMore" /\ FetchMore(n, outcome))
          => IF childrenFetched[n]
             THEN /\ last'.err = "none" /\ last'.ret = <<>>
                  /\ UNCHANGED <<created, nodeName, parentItem, childItems,
                                 nodePath, isLazy, childrenFetched>>
             ELSE childrenFetched'[n]]_vars

\* C26 amended: fetchMore on an item whose flag is True returns without an
\* error and changes no field of any item, and builds no item.  fetchMore on
\* an item whose flag is False runs the production step: when the step
\* returns, the flag is True afterwards, and when it raises, its error leaves
\* fetchMore and the flag stays False, so the next fetchMore runs the step
\* again.  No call of the tree model sets a flag back to False, so the step
\* returns at most once for an item.
C26_FetchMoreNoOpWhenFetched ==
    [][/\ \A n \in Nodes, outcome \in Outcomes :
              (last'.op = "fetchMore" /\ FetchMore(n, outcome))
              => IF childrenFetched[n]
                 THEN /\ last'.err = "none" /\ last'.ret = <<>>
                      /\ UNCHANGED <<created, nodeName, parentItem, childItems,
                                     nodePath, isLazy, childrenFetched>>
                 ELSE IF outcome = None
                 THEN /\ last'.err = "ProductionError"
                      /\ ~childrenFetched'[n]
                      /\ UNCHANGED <<created, nodeName, parentItem, childItems,
                                     nodePath, isLazy>>
                 ELSE childrenFetched'[n]
       /\ \A n \in created : childrenFetched[n] => childrenFetched'[n]]_vars

\* C26: the third call of the run was a fetchMore on the one fetched item,
\* which holds the two items its production step returned in the second
\* call; it returned nothing and raised nothing.
C26_Witness ==
    /\ last = Call("fetchMore", "none", <<>>, <<>>)
    /\ calls = Cardinality(created) - 1 /\ Cardinality(created) = Len(ProducedNames) + 2
    /\ \E n \in created :
           /\ childrenFetched[n] /\ Len(childItems[n]) = Len(ProducedNames)
           /\ \A m \in created \ {n} : ~childrenFetched[m] /\ childItems[m] \in {<<>>, <<n>>}

\* C27: when createFromFileName raises during reloadFileAtIndex, the tree is
\* as it was before the call: the old item is still at its row under its
\* parent and no finalize() has run.
C27_FailedReloadKeepsTree ==
    [][\A n \in Nodes :
          (last'.op = "reloadFile" /\ last'.err = "LoadError" /\ ReloadFile(n, FALSE))
          => /\ UNCHANGED <<created, nodeName, parentItem, childItems, nodePath,
                            isLazy, childrenFetched>>
             /\ Child(parentItem[n], ChildNumber(n))' = n
             /\ last'.log = <<>>]_vars


====
